---- MODULE Spec2Model ----
(***************************************************************************)
(* Shirt Mockup Generator (src/mockup_generator.py), a Streamlit script.   *)
(* Every user interaction re-executes the whole script; session_state and  *)
(* the widget values survive between executions.  One action of this       *)
(* module is one interaction together with the script execution it         *)
(* triggers.                                                               *)
(*                                                                         *)
(* Numbers.  The padding ratio slider moves in steps of 0.05, so a ratio   *)
(* is held as its number of twentieths (0.45 is 9).  A quotient or product *)
(* of the script is held as an exact fraction <<numerator, denominator>>.  *)
(* The script computes in binary floating point: a product whose exact     *)
(* value is an integer N can come out just below N, and int() then gives   *)
(* N - 1 (int(15 * (min(5/15, 1.0) * 0.6)) is 2, not 3).  FloatInt keeps   *)
(* both outcomes wherever an operand is not exactly representable.         *)
(*                                                                         *)
(* Rasters.  An image is held by its size and a description of its pixels; *)
(* PixelAt reads one pixel <<colour, alpha>> at 0-based (i, j).            *)
(***************************************************************************)
EXTENDS Integers, Sequences, FiniteSets, TLC

\* ------------------------------------------------------------------ bounds
MaxDim == 3        \* design sides and box sides range over 1..MaxDim
MaxFiles == 2      \* at most this many files in each uploader
DetectionCap == 2  \* the count of detections per name stops here

\* ------------------------------------------------------- program constants
PadDen == 20       \* padding slider step 0.05 = 1/20
PadMin == 2        \* slider minimum 0.1
PadMax == 20       \* slider maximum 1.0
PlainPadDefault == 9     \* 0.45
ModelPadDefault == 9     \* 0.45
PlainOffsetDefault == 24
ModelOffsetDefault == 38
OffsetMin == 0 - 50
OffsetMax == 100
BatchSpan == 19
Opaque == 255

\* ------------------------------------------------------------- arithmetic
RECURSIVE GCD(_, _)
GCD(a, b) == IF b = 0 THEN a ELSE GCD(b, a % b)

RECURSIVE IsPow2(_)
IsPow2(n) == IF n = 1 THEN TRUE ELSE IF n % 2 = 1 THEN FALSE ELSE IsPow2(n \div 2)

\* a fraction of small integers is a binary floating-point number exactly
\* when its reduced denominator is a power of two
ExactFloat(q) == IsPow2(q[2] \div GCD(q[1], q[2]))

RatLeq(a, b) == a[1] * b[2] <= b[1] * a[2]

\* (variant) min without its third argument: the 1.0 cap is lost
Min3Uncapped(a, b, c) == IF RatLeq(a, b) THEN a ELSE b

\* Python min(a, b, c): the first of the smallest arguments
Min3(a, b, c) ==
    LET ab == IF RatLeq(a, b) THEN a ELSE b
    IN  IF RatLeq(ab, c) THEN ab ELSE c

\* (variant) round(x) in place of int(x)
FloatIntNearest(q, exact, low) == (2 * q[1] + q[2]) \div (2 * q[2])

\* int(x) of a non-negative float x whose exact value is q: truncation.
\* When the computation was inexact and q is an integer, the float may lie
\* just below it; "low" says whether it does.
FloatInt(q, exact, low) ==
    IF (~exact) /\ low /\ q[1] % q[2] = 0 /\ q[1] > 0
    THEN (q[1] \div q[2]) - 1
    ELSE q[1] \div q[2]

\* (variant) a // b in place of int(a / b)
TruncDivFloor(a, b) == a \div b

\* int(a / b) for integers a, b > 0: true division then truncation toward
\* zero (the quotient of two small integers is never within rounding error
\* of an integer it does not equal)
TruncDiv(a, b) == IF a >= 0 THEN a \div b ELSE 0 - ((0 - a) \div b)

\* (variant) int(a / b) in place of a // b
FloorDivTowardZero(a, b) == IF a >= 0 THEN a \div b ELSE 0 - ((0 - a) \div b)

\* a // b, floor division
FloorDiv(a, b) == a \div b

\* ------------------------------------------------------------- file names
\* a file name is a sequence of tokens: words and "."
Lower(t) == IF t \in {"Model", "MODEL"} THEN "model" ELSE t

\* "model" in name.lower()
IsModelName(name) == \E i \in 1..Len(name) : Lower(name[i]) = "model"

\* os.path.splitext(name)[0]: the name up to its last dot, when something
\* other than dots precedes that dot
Stem(name) ==
    LET dots == {i \in 1..Len(name) : name[i] = "."}
        last == IF dots = {} THEN 0 ELSE CHOOSE i \in dots : \A j \in dots : j <= i
    IN  IF last > 1 /\ (\E j \in 1..(last - 1) : name[j] # ".")
        THEN SubSeq(name, 1, last - 1)
        ELSE name

\* f"{design_name}_{shirt_name}.png"
EntryName(design_name, shirt_name) == design_name \o <<"_">> \o shirt_name \o <<".", "png">>

\* dict.get(key, default)
DictGet(d, key, default) == IF key \in DOMAIN d THEN d[key] ELSE default

\* d[key] = value
DictSet(d, key, value) == [k \in (DOMAIN d) \cup {key} |-> IF k = key THEN value ELSE d[k]]

EmptyDict == [k \in {} |-> 0]

\* ---------------------------------------------------------------- rasters
\* Image.open(design_file).convert("RGBA"): a design of one colour and one
\* alpha value (0 = fully transparent, 255 = opaque)
DecodeDesign(file) == [w |-> file.w, h |-> file.h, colour |-> file.colour, alpha |-> file.alpha]

\* Image.open(shirt_file).convert("RGBA"): the file's pixels, nothing pasted
DecodeShirt(file) == [w |-> file.w, h |-> file.h, id |-> file.id, resized |-> FALSE, layer |-> <<>>]

\* shirt.resize((resize_width, new_height), Image.LANCZOS)
ResizeShirt(shirt, width, height) ==
    [w |-> width, h |-> height, id |-> shirt.id, resized |-> TRUE, layer |-> <<>>]

\* Image.resize refuses an empty target size (ValueError)
ResizeRaises(width, height) == width < 1 \/ height < 1

\* design.resize((new_width, new_height)): a copy when the size is unchanged;
\* otherwise resampled through premultiplied alpha, which keeps a uniform
\* alpha and blanks the colour of fully transparent pixels
ResizeDesign(design, width, height) ==
    IF width = design.w /\ height = design.h
    THEN design
    ELSE [w |-> width, h |-> height,
          colour |-> IF design.alpha = 0 THEN 0 ELSE design.colour,
          alpha |-> design.alpha]

\* the pixels of a decoded shirt template (opaque), before and after LANCZOS
ShirtPixel(id, resized, i, j) == <<(7 * id + i + 3 * j + (IF resized THEN 1 ELSE 0)) % 256, Opaque>>

\* one band of Image.paste with a mask: mask 0 keeps the destination,
\* mask 255 takes the source
Blend(dst, src, mask) == (src * mask + dst * (Opaque - mask)) \div Opaque

\* (variant) paste without a mask: every pixel of the source is written
MaskOpaque(mask) == Opaque

\* the mask band of an RGBA mask image is its alpha band
MaskAlpha(mask) == mask.alpha

PixelAt(img, i, j) ==
    LET base == ShirtPixel(img.id, img.resized, i, j)
    IN  IF img.layer = <<>> THEN base
        ELSE LET l == img.layer[1]
             IN  IF /\ l.x <= i /\ i < l.x + l.src.w
                    /\ l.y <= j /\ j < l.y + l.src.h
                 THEN <<Blend(base[1], l.src.colour, l.mask),
                        Blend(base[2], l.src.alpha, l.mask)>>
                 ELSE base

\* im.paste(src, (x, y), mask) on the buffer im, clipped to im
Paste(img, src, x, y, mask) ==
    [img EXCEPT !.layer = <<[x |-> x, y |-> y, src |-> src, mask |-> MaskAlpha(mask)]>>]

\* Buffers.  heap is the sequence of live rasters; a reference is an index.
\* shirt.copy() allocates a new buffer with the same pixels.
CopyImage(heap, ref) == [heap |-> Append(heap, heap[ref]), ref |-> Len(heap) + 1]

\* preview = shirt.copy(); preview.paste(resized_design, (x, y), resized_design)
\* Result: the shirt buffer afterwards and the pasted copy.
Composite(shirt, resized_design, x, y) ==
    LET c == CopyImage(<<shirt>>, 1)
        pasted == [c.heap EXCEPT ![c.ref] = Paste(c.heap[c.ref], resized_design, x, y, resized_design)]
    IN  [shirt |-> pasted[1], out |-> pasted[c.ref]]

\* -------------------------------------------------------------- detection
NoBox == <<>>      \* None

\* if bbox:
Truthy(bbox) == Len(bbox) > 0

\* cv2.contourArea of the outline of a w x h block of pixels
ContourArea(rect) == (rect[3] - 1) * (rect[4] - 1)

\* Lines 66-72.  file.blobs lists the bounding rectangles <<x, y, w, h>> of
\* the external contours of the thresholded image, in findContours order;
\* the largest contour wins, the first one on ties; no contour gives None.
Detect(file) ==
    IF file.blobs = <<>> THEN NoBox
    ELSE LET best == CHOOSE i \in 1..Len(file.blobs) :
                        /\ \A j \in 1..Len(file.blobs) :
                              ContourArea(file.blobs[j]) <= ContourArea(file.blobs[i])
                        /\ \A j \in 1..(i - 1) :
                              ContourArea(file.blobs[j]) < ContourArea(file.blobs[i])
         IN  file.blobs[best]

\* (variant) the lookup of line 63 is missing: detection runs on every call
get_shirt_bbox_uncached(boxes, runs, file) ==
    LET bbox == Detect(file)
    IN  [bbox |-> bbox,
         boxes |-> DictSet(boxes, file.name, bbox),
         runs |-> DictSet(runs, file.name,
                          IF DictGet(runs, file.name, 0) < DetectionCap
                          THEN DictGet(runs, file.name, 0) + 1
                          ELSE DetectionCap)]

\* get_shirt_bbox_cached(shirt_bytes, shirt_name) on the cache "boxes";
\* "runs" counts the detections run per name since the cache was emptied
get_shirt_bbox_cached(boxes, runs, file) ==
    IF file.name \in DOMAIN boxes
    THEN [bbox |-> boxes[file.name], boxes |-> boxes, runs |-> runs]
    ELSE LET bbox == Detect(file)
         IN  [bbox |-> bbox,
              boxes |-> DictSet(boxes, file.name, bbox),
              runs |-> DictSet(runs, file.name,
                               IF DictGet(runs, file.name, 0) < DetectionCap
                               THEN DictGet(runs, file.name, 0) + 1
                               ELSE DetectionCap)]

\* -------------------------------------------------------------- placement
\* Live preview, lines 99-111.  padding is in twentieths.
PreviewPlacement(design, shirt, bbox, padding, offset_pct, low) ==
    IF Truthy(bbox)
    THEN LET sx == bbox[1]
             sy == bbox[2]
             sw == bbox[3]
             sh == bbox[4]
             least == Min3(<<sw, design.w>>, <<sh, design.h>>, <<1, 1>>)
             scale == <<least[1] * padding, least[2] * PadDen>>
             exact == ExactFloat(least) /\ ExactFloat(<<padding, PadDen>>)
             new_width == FloatInt(<<design.w * scale[1], scale[2]>>, exact, low)
             new_height == FloatInt(<<design.h * scale[1], scale[2]>>, exact, low)
             y_offset == TruncDiv(sh * offset_pct, 100)
         IN  [scale |-> scale, new_width |-> new_width, new_height |-> new_height,
              x |-> sx + FloorDiv(sw - new_width, 2), y |-> sy + y_offset]
    ELSE [scale |-> <<1, 1>>, new_width |-> design.w, new_height |-> design.h,
          x |-> FloorDiv(shirt.w - design.w, 2), y |-> FloorDiv(shirt.h - design.h, 2)]

\* Batch generation, lines 148-160
BatchPlacement(design, shirt, bbox, padding, offset_pct, low) ==
    IF Truthy(bbox)
    THEN LET sx == bbox[1]
             sy == bbox[2]
             sw == bbox[3]
             sh == bbox[4]
             least == Min3(<<sw, design.w>>, <<sh, design.h>>, <<1, 1>>)
             scale == <<least[1] * padding, least[2] * PadDen>>
             exact == ExactFloat(least) /\ ExactFloat(<<padding, PadDen>>)
             new_width == FloatInt(<<design.w * scale[1], scale[2]>>, exact, low)
             new_height == FloatInt(<<design.h * scale[1], scale[2]>>, exact, low)
             y_offset == TruncDiv(sh * offset_pct, 100)
         IN  [scale |-> scale, new_width |-> new_width, new_height |-> new_height,
              x |-> sx + FloorDiv(sw - new_width, 2), y |-> sy + y_offset]
    ELSE [scale |-> <<1, 1>>, new_width |-> design.w, new_height |-> design.h,
          x |-> FloorDiv(shirt.w - design.w, 2), y |-> FloorDiv(shirt.h - design.h, 2)]

\* ------------------------------------------------------------------ state
VARIABLES
    design_files,         \* value of the "Upload Design Images" uploader
    shirt_files,          \* value of the "Upload Shirt Templates" uploader
    plain_padding_ratio,  \* sliders and number input of the sidebar
    model_padding_ratio,
    plain_offset_pct,
    model_offset_pct,
    resize_width,
    batch_start,          \* "Start from Design #" (0 while not rendered)
    batch_end,            \* "End at Design #" (0 while not rendered)
    selected_design,      \* index shown in "Select a Design" (left on the first option)
    selected_shirt,       \* index shown in "Select a Shirt Template" (likewise)
    name_inputs,          \* text typed in the "Name for Design" inputs, by widget key
    design_names,         \* st.session_state.design_names
    shirt_bboxes,         \* st.session_state.shirt_bboxes
    detections,           \* detections run per shirt name since shirt_bboxes was emptied
    preview,              \* what the Live Preview section of the last run showed
    generated,            \* what the Generate section of the last run did
    clicked,              \* the button that was clicked for the last run, or "none"
    pc                    \* "idle", or "rerun" between st.rerun() and the run it starts

widgets == <<design_files, shirt_files, plain_padding_ratio, model_padding_ratio,
             plain_offset_pct, model_offset_pct, resize_width, batch_start, batch_end,
             selected_design, selected_shirt>>

vars == <<design_files, shirt_files, plain_padding_ratio, model_padding_ratio,
          plain_offset_pct, model_offset_pct, resize_width, batch_start, batch_end,
          selected_design, selected_shirt, name_inputs, design_names, shirt_bboxes,
          detections, preview, generated, clicked, pc>>

\* --------------------------------------------------------- script sections
\* Below, "x \in {e}" names the value of e and "CHOOSE out \in {...} : TRUE"
\* is the one value built from it.

\* Lines 42-51: one text input per design; its typed text when the widget
\* already exists, else its value= argument; the result is stored by file name
RECURSIVE DesignNaming(_, _, _, _, _)
DesignNaming(files, i, typed, names, rendered) ==
    IF i > Len(files) THEN [names |-> names, inputs |-> rendered]
    ELSE LET file == files[i]
             key == <<i, file.name>>
             default_name == Stem(file.name)
             custom_name == IF key \in DOMAIN typed THEN typed[key]
                            ELSE DictGet(names, file.name, default_name)
         IN  CHOOSE out \in
                 { DesignNaming(files, i + 1, typed, stored, shown) :
                     stored \in {DictSet(names, file.name, custom_name)},
                     shown \in {DictSet(rendered, key, custom_name)} } : TRUE

\* (variant) the batch is every uploaded design
SelectedBatchAll(files, start, end) ==
    IF files # <<>>
    THEN [defined |-> TRUE, files |-> files]
    ELSE [defined |-> FALSE, files |-> <<>>]

\* Lines 54-59: selected_batch exists only when a design is uploaded
SelectedBatch(files, start, end) ==
    IF files # <<>>
    THEN [defined |-> TRUE, files |-> SubSeq(files, start, end)]
    ELSE [defined |-> FALSE, files |-> <<>>]

\* Lines 90-91 and 139-140: the height the shirt is resized to, when it is
NeedsResize(shirt, width) == width > 0 /\ shirt.w > width
ResizedHeight(shirt, width, low) ==
    FloatInt(<<shirt.h * width, shirt.w>>, ExactFloat(<<width, shirt.w>>), low)

\* Lines 94-96 and 143-145
OffsetFor(name, ctl) == IF IsModelName(name) THEN ctl.model_offset_pct ELSE ctl.plain_offset_pct
PaddingFor(name, ctl) == IF IsModelName(name) THEN ctl.model_padding_ratio ELSE ctl.plain_padding_ratio

\* what one placement used and produced
Shot(design_file, shirt_file, canvas, lookup, padding, offset_pct, pl, resized_design, done) ==
    [design |-> design_file, shirt |-> shirt_file,
     canvas_w |-> canvas.w, canvas_h |-> canvas.h,
     bbox |-> lookup.bbox, padding |-> padding, offset_pct |-> offset_pct,
     scale |-> pl.scale, new_width |-> pl.new_width, new_height |-> pl.new_height,
     x |-> pl.x, y |-> pl.y,
     resized_design |-> resized_design,
     shirt_before |-> canvas, shirt_after |-> done.shirt, image |-> done.out]

\* Lines 83-118: the try block of the Live Preview and its except clause
LivePreview(design_file, shirt_file, ctl, boxes, runs, low) ==
    LET failed == [status |-> "failed", shots |-> <<>>, boxes |-> boxes, runs |-> runs]
    IN
    IF ~design_file.ok THEN failed
    ELSE IF ~shirt_file.ok THEN failed
    ELSE
      LET design == DecodeDesign(design_file)
          opened == DecodeShirt(shirt_file)
          shrink == NeedsResize(opened, ctl.resize_width)
          new_height == ResizedHeight(opened, ctl.resize_width, low)
          offset_pct == OffsetFor(shirt_file.name, ctl)
          padding_ratio == PaddingFor(shirt_file.name, ctl)
      IN
      IF shrink /\ ResizeRaises(ctl.resize_width, new_height) THEN failed
      ELSE CHOOSE out \in UNION {
             { IF Truthy(lookup.bbox) /\ ResizeRaises(pl.new_width, pl.new_height)
               THEN [failed EXCEPT !.boxes = lookup.boxes, !.runs = lookup.runs]
               ELSE LET resized_design == IF Truthy(lookup.bbox)
                                          THEN ResizeDesign(design, pl.new_width, pl.new_height)
                                          ELSE design
                        done == Composite(shirt, resized_design, pl.x, pl.y)
                    IN  [status |-> "shown",
                         shots |-> <<Shot(design_file, shirt_file, shirt, lookup, padding_ratio,
                                          offset_pct, pl, resized_design, done)>>,
                         boxes |-> lookup.boxes, runs |-> lookup.runs] :
               pl \in {PreviewPlacement(design, shirt, lookup.bbox, padding_ratio, offset_pct, low)} } :
             shirt \in {IF shrink THEN ResizeShirt(opened, ctl.resize_width, new_height) ELSE opened},
             lookup \in {get_shirt_bbox_cached(boxes, runs, shirt_file)} } : TRUE

\* Lines 128-170 for one (design_file, shirt_file) pair: the entry written
\* to the archive, or the exception that ends the run
BatchPair(design_file, shirt_file, names, ctl, boxes, runs, low) ==
    LET raised == [raised |-> TRUE, entries |-> <<>>, boxes |-> boxes, runs |-> runs]
        design_name == DictGet(names, design_file.name, <<"graphic">>)
    IN
    IF ~design_file.ok THEN raised
    ELSE IF ~shirt_file.ok THEN raised
    ELSE
      LET design == DecodeDesign(design_file)
          shirt_name == Stem(shirt_file.name)
          opened == DecodeShirt(shirt_file)
          shrink == NeedsResize(opened, ctl.resize_width)
          new_height == ResizedHeight(opened, ctl.resize_width, low)
          offset_pct == OffsetFor(shirt_file.name, ctl)
          padding_ratio == PaddingFor(shirt_file.name, ctl)
      IN
      IF shrink /\ ResizeRaises(ctl.resize_width, new_height) THEN raised
      ELSE CHOOSE out \in UNION {
             { IF Truthy(lookup.bbox) /\ ResizeRaises(pl.new_width, pl.new_height)
               THEN [raised EXCEPT !.boxes = lookup.boxes, !.runs = lookup.runs]
               ELSE LET resized_design == IF Truthy(lookup.bbox)
                                          THEN ResizeDesign(design, pl.new_width, pl.new_height)
                                          ELSE design
                        done == Composite(shirt, resized_design, pl.x, pl.y)
                    IN  [raised |-> FALSE,
                         entries |-> <<[name |-> EntryName(design_name, shirt_name),
                                        shot |-> Shot(design_file, shirt_file, shirt, lookup,
                                                      padding_ratio, offset_pct, pl,
                                                      resized_design, done)]>>,
                         boxes |-> lookup.boxes, runs |-> lookup.runs] :
               pl \in {BatchPlacement(design, shirt, lookup.bbox, padding_ratio, offset_pct, low)} } :
             shirt \in {IF shrink THEN ResizeShirt(opened, ctl.resize_width, new_height) ELSE opened},
             lookup \in {get_shirt_bbox_cached(boxes, runs, shirt_file)} } : TRUE

\* (variant) a pair that raises is skipped and the loops go on
RECURSIVE BatchLoopSkipping(_, _, _, _, _, _, _)
BatchLoopSkipping(batch, shirts, names, ctl, low, k, acc) ==
    IF k > Len(batch) * Len(shirts) THEN acc
    ELSE LET design_file == batch[((k - 1) \div Len(shirts)) + 1]
             shirt_file == shirts[((k - 1) % Len(shirts)) + 1]
         IN  CHOOSE out \in UNION {
                 { BatchLoopSkipping(batch, shirts, names, ctl, low, k + 1, next) :
                     next \in {[raised |-> FALSE, entries |-> acc.entries \o step.entries,
                                boxes |-> step.boxes, runs |-> step.runs]} } :
                 step \in {BatchPair(design_file, shirt_file, names, ctl, acc.boxes, acc.runs, low)} } : TRUE

\* Lines 127 and 132: the two nested loops, pair k of Len(batch) * Len(shirts)
\* in loop order, stopping at the first exception
RECURSIVE BatchLoop(_, _, _, _, _, _, _)
BatchLoop(batch, shirts, names, ctl, low, k, acc) ==
    IF acc.raised \/ k > Len(batch) * Len(shirts) THEN acc
    ELSE LET design_file == batch[((k - 1) \div Len(shirts)) + 1]
             shirt_file == shirts[((k - 1) % Len(shirts)) + 1]
         IN  CHOOSE out \in UNION {
                 { BatchLoop(batch, shirts, names, ctl, low, k + 1, next) :
                     next \in {[raised |-> step.raised, entries |-> acc.entries \o step.entries,
                                boxes |-> step.boxes, runs |-> step.runs]} } :
                 step \in {BatchPair(design_file, shirt_file, names, ctl, acc.boxes, acc.runs, low)} } : TRUE

\* Lines 121-182: the Generate button was clicked
GenerateMockups(selected_batch, shirts, names, ctl, boxes, runs, low) ==
    IF ~selected_batch.defined
    THEN [status |-> "aborted", error |-> "NameError", entries |-> <<>>,
          boxes |-> boxes, runs |-> runs]
    ELSE IF ~(selected_batch.files # <<>> /\ shirts # <<>>)
    THEN [status |-> "warning", error |-> "", entries |-> <<>>, boxes |-> boxes, runs |-> runs]
    ELSE CHOOSE out \in UNION {
             { [status |-> IF zipf.raised THEN "aborted" ELSE "download",
                error |-> IF zipf.raised THEN "Exception" ELSE "",
                entries |-> zipf.entries, boxes |-> zipf.boxes, runs |-> zipf.runs] :
               zipf \in {BatchLoop(selected_batch.files, shirts, names, ctl, low, 1, start)} } :
             start \in {[raised |-> FALSE, entries |-> <<>>, boxes |-> boxes, runs |-> runs]} } : TRUE

NotClicked(boxes, runs) ==
    [status |-> "none", error |-> "", entries |-> <<>>, boxes |-> boxes, runs |-> runs]

\* One execution of the script from line 42 on (Start Over not clicked), on
\* the widget values given; "generate" says whether the Generate button was
\* the widget clicked.
Script(files, shirts, ctl, start, end, sel_design, sel_shirt, typed, names, boxes, runs, generate, low) ==
    CHOOSE out \in UNION {
        { [names |-> naming.names, inputs |-> naming.inputs,
           boxes |-> gen.boxes, runs |-> gen.runs,
           preview |-> [status |-> live.status, shots |-> live.shots],
           generated |-> [status |-> gen.status, error |-> gen.error, entries |-> gen.entries]] :
          gen \in {IF generate
                   THEN GenerateMockups(selected_batch, shirts, naming.names, ctl,
                                        live.boxes, live.runs, low)
                   ELSE NotClicked(live.boxes, live.runs)} } :
        naming \in {IF files # <<>>
                    THEN DesignNaming(files, 1, typed, names, EmptyDict)
                    ELSE [names |-> names, inputs |-> EmptyDict]},
        selected_batch \in {SelectedBatch(files, start, end)},
        live \in {IF files # <<>> /\ shirts # <<>>
                  THEN LivePreview(files[sel_design], shirts[sel_shirt], ctl, boxes, runs, low)
                  ELSE [status |-> "none", shots |-> <<>>, boxes |-> boxes, runs |-> runs]} } : TRUE

\* ----------------------------------------------------------------- inputs
\* files a user may upload: designs 5x4 opaque, 4x4 fully transparent, and
\* one that does not decode
DesignUniverse ==
    { [name |-> <<"logo", ".", "png">>, ok |-> TRUE, w |-> 5, h |-> 4, colour |-> 40, alpha |-> Opaque],
      [name |-> <<"clear", ".", "png">>, ok |-> TRUE, w |-> 4, h |-> 4, colour |-> 90, alpha |-> 0],
      [name |-> <<"bad", ".", "jpg">>, ok |-> FALSE, w |-> 1, h |-> 1, colour |-> 0, alpha |-> 0] }

\* shirts: two different files both called plain.png, one with a printable
\* region and one uniformly bright
ShirtUniverse ==
    { [name |-> <<"plain", ".", "png">>, ok |-> TRUE, id |-> 1, w |-> 6, h |-> 4,
       blobs |-> << <<0, 0, 2, 2>>, <<1, 1, 4, 3>> >>],
      [name |-> <<"plain", ".", "png">>, ok |-> TRUE, id |-> 2, w |-> 6, h |-> 5,
       blobs |-> <<>>] }

\* the values an uploader can hold: up to MaxFiles different files, in order
Uploads(universe) ==
    UNION { { q \in [1..n -> universe] : \A i, j \in 1..n : q[i] = q[j] => i = j } : n \in 0..MaxFiles }

PaddingChoices == {PlainPadDefault, PadMax}
ResizeChoices == {0, 2}
TypedNames == { <<"tee">> }

NoPreview == [status |-> "none", shots |-> <<>>]
NoGenerate == [status |-> "none", error |-> "", entries |-> <<>>]

\* Python min(a, b) on integers
Min2(a, b) == IF a <= b THEN a ELSE b

\* Lines 19-33: the state of a fresh session before any upload
Init ==
    /\ design_files = <<>>
    /\ shirt_files = <<>>
    /\ plain_padding_ratio = PlainPadDefault
    /\ model_padding_ratio = ModelPadDefault
    /\ plain_offset_pct = PlainOffsetDefault
    /\ model_offset_pct = ModelOffsetDefault
    /\ resize_width = 0
    /\ batch_start = 0
    /\ batch_end = 0
    /\ selected_design = 1
    /\ selected_shirt = 1
    /\ name_inputs = EmptyDict
    /\ design_names = EmptyDict
    /\ shirt_bboxes = EmptyDict
    /\ detections = EmptyDict
    /\ preview = NoPreview
    /\ generated = NoGenerate
    /\ clicked = "none"
    /\ pc = "idle"

\* The script execution that follows an interaction, on the new widget values
Run(typed, generate) ==
    \E low \in BOOLEAN :
      \E ctl \in {[plain_padding_ratio |-> plain_padding_ratio', model_padding_ratio |-> model_padding_ratio',
                   plain_offset_pct |-> plain_offset_pct', model_offset_pct |-> model_offset_pct',
                   resize_width |-> resize_width']} :
        \E r \in {Script(design_files', shirt_files', ctl, batch_start', batch_end',
                         selected_design', selected_shirt', typed, design_names,
                         shirt_bboxes, detections, generate, low)} :
            /\ design_names' = r.names
            /\ name_inputs' = r.inputs
            /\ shirt_bboxes' = r.boxes
            /\ detections' = r.runs
            /\ preview' = r.preview
            /\ generated' = r.generated
            /\ clicked' = (IF generate THEN "generate" ELSE "none")
            /\ pc' = "idle"

\* the design uploader changes: the batch inputs and select boxes are new widgets
UploadDesigns(files) ==
    /\ pc = "idle"
    /\ files # design_files
    /\ design_files' = files
    /\ batch_start' = IF files # <<>> THEN 1 ELSE 0
    /\ batch_end' = IF files # <<>> THEN Min2(1 + BatchSpan, Len(files)) ELSE 0
    /\ selected_design' = 1
    /\ selected_shirt' = 1
    /\ UNCHANGED <<shirt_files, plain_padding_ratio, model_padding_ratio, plain_offset_pct,
                   model_offset_pct, resize_width>>
    /\ Run(name_inputs, FALSE)

UploadShirts(files) ==
    /\ pc = "idle"
    /\ files # shirt_files
    /\ shirt_files' = files
    /\ selected_design' = 1
    /\ selected_shirt' = 1
    /\ UNCHANGED <<design_files, plain_padding_ratio, model_padding_ratio, plain_offset_pct,
                   model_offset_pct, resize_width, batch_start, batch_end>>
    /\ Run(name_inputs, FALSE)

SetPlainPadding(ratio) ==
    /\ pc = "idle"
    /\ ratio # plain_padding_ratio
    /\ plain_padding_ratio' = ratio
    /\ UNCHANGED <<design_files, shirt_files, model_padding_ratio, plain_offset_pct,
                   model_offset_pct, resize_width, batch_start, batch_end,
                   selected_design, selected_shirt>>
    /\ Run(name_inputs, FALSE)

SetResizeWidth(width) ==
    /\ pc = "idle"
    /\ width # resize_width
    /\ resize_width' = width
    /\ UNCHANGED <<design_files, shirt_files, plain_padding_ratio, model_padding_ratio,
                   plain_offset_pct, model_offset_pct, batch_start, batch_end,
                   selected_design, selected_shirt>>
    /\ Run(name_inputs, FALSE)

\* "Start from Design #": "End at Design #" takes it as min_value and in its
\* default, so it is a new widget showing that default
SetBatchStart(start) ==
    /\ pc = "idle"
    /\ design_files # <<>>
    /\ start # batch_start
    /\ batch_start' = start
    /\ batch_end' = Min2(start + BatchSpan, Len(design_files))
    /\ UNCHANGED <<design_files, shirt_files, plain_padding_ratio, model_padding_ratio,
                   plain_offset_pct, model_offset_pct, resize_width,
                   selected_design, selected_shirt>>
    /\ Run(name_inputs, FALSE)

SetBatchEnd(end) ==
    /\ pc = "idle"
    /\ design_files # <<>>
    /\ end # batch_end
    /\ batch_end' = end
    /\ UNCHANGED <<design_files, shirt_files, plain_padding_ratio, model_padding_ratio,
                   plain_offset_pct, model_offset_pct, resize_width, batch_start,
                   selected_design, selected_shirt>>
    /\ Run(name_inputs, FALSE)

\* the user types a name into the text input of design i
TypeDesignName(i, text) ==
    /\ pc = "idle"
    /\ <<i, design_files[i].name>> \in DOMAIN name_inputs
    /\ name_inputs[<<i, design_files[i].name>>] # text
    /\ UNCHANGED widgets
    /\ Run([name_inputs EXCEPT ![<<i, design_files[i].name>>] = text], FALSE)

\* Lines 121-182
ClickGenerate ==
    /\ pc = "idle"
    /\ UNCHANGED widgets
    /\ Run(name_inputs, TRUE)

\* Lines 36-39: both dictionaries are emptied and st.rerun() ends this run
ClickStartOver ==
    /\ pc = "idle"
    /\ design_names' = EmptyDict
    /\ shirt_bboxes' = EmptyDict
    /\ detections' = EmptyDict
    /\ preview' = NoPreview
    /\ generated' = NoGenerate
    /\ clicked' = "start over"
    /\ pc' = "rerun"
    /\ UNCHANGED widgets
    /\ UNCHANGED name_inputs

\* the run st.rerun() asked for: no button is clicked in it
Rerun ==
    /\ pc = "rerun"
    /\ UNCHANGED widgets
    /\ Run(name_inputs, FALSE)

Next ==
    \/ \E files \in Uploads(DesignUniverse) : UploadDesigns(files)
    \/ \E files \in Uploads(ShirtUniverse) : UploadShirts(files)
    \/ \E ratio \in PaddingChoices : SetPlainPadding(ratio)
    \/ \E width \in ResizeChoices : SetResizeWidth(width)
    \/ \E start \in 1..Len(design_files) : SetBatchStart(start)
    \/ \E end \in batch_start..Len(design_files) : SetBatchEnd(end)
    \/ \E i \in 1..Len(design_files), text \in TypedNames : TypeDesignName(i, text)
    \/ ClickGenerate
    \/ ClickStartOver
    \/ Rerun

Spec == Init /\ [][Next]_vars

\* ------------------------------------------- placement over ranges of sizes
\* One design and one shirt are uploaded and the sliders are set; the sizes,
\* the box, the padding ratio and the offset range over the sets below.
PlaceDesigns ==
    { [name |-> <<"logo", ".", "png">>, ok |-> TRUE, w |-> dw, h |-> dh, colour |-> 40, alpha |-> Opaque] :
        dw \in 1..MaxDim, dh \in 1..MaxDim }
    \cup { [name |-> <<"logo", ".", "png">>, ok |-> TRUE, w |-> 300, h |-> 300, colour |-> 40, alpha |-> Opaque] }

PlaceShirts ==
    { [name |-> <<"plain", "blue", ".", "png">>, ok |-> TRUE, id |-> 1, w |-> sw + 1, h |-> sh + 1,
       blobs |-> << <<0, 0, sw, sh>> >>] : sw \in 1..MaxDim, sh \in 1..MaxDim }
    \cup { [name |-> <<"MODEL", "red", ".", "png">>, ok |-> TRUE, id |-> 2, w |-> sw + 2, h |-> sh + 3,
            blobs |-> << <<1, 2, sw, sh>> >>] : sw \in 1..MaxDim, sh \in 1..MaxDim }
    \cup { [name |-> <<"shirt", ".", "jpg">>, ok |-> TRUE, id |-> 3, w |-> 800, h |-> 600,
            blobs |-> << <<100, 100, 600, 400>> >>] }

PlaceOffsets == {OffsetMin, 0, PlainOffsetDefault, ModelOffsetDefault, 50, OffsetMax}

InitPlace ==
    \E d \in PlaceDesigns, s \in PlaceShirts, ratio \in PadMin..PadMax, pct \in PlaceOffsets,
       low \in BOOLEAN, worn \in BOOLEAN :
      /\ worn = IsModelName(s.name)
      /\ \E ctl \in {[plain_padding_ratio |-> IF worn THEN PlainPadDefault ELSE ratio,
                      model_padding_ratio |-> IF worn THEN ratio ELSE ModelPadDefault,
                      plain_offset_pct |-> IF worn THEN PlainOffsetDefault ELSE pct,
                      model_offset_pct |-> IF worn THEN pct ELSE ModelOffsetDefault,
                      resize_width |-> 0]} :
           \E r \in {Script(<<d>>, <<s>>, ctl, 1, 1, 1, 1, EmptyDict, EmptyDict, EmptyDict,
                            EmptyDict, FALSE, low)} :
            /\ design_files = <<d>>
            /\ shirt_files = <<s>>
            /\ plain_padding_ratio = ctl.plain_padding_ratio
            /\ model_padding_ratio = ctl.model_padding_ratio
            /\ plain_offset_pct = ctl.plain_offset_pct
            /\ model_offset_pct = ctl.model_offset_pct
            /\ resize_width = 0
            /\ batch_start = 1
            /\ batch_end = 1
            /\ selected_design = 1
            /\ selected_shirt = 1
            /\ name_inputs = r.inputs
            /\ design_names = r.names
            /\ shirt_bboxes = r.boxes
            /\ detections = r.runs
            /\ preview = r.preview
            /\ generated = r.generated
            /\ clicked = "none"
            /\ pc = "idle"

NextPlace ==
    \/ ClickGenerate
    \/ ClickStartOver
    \/ Rerun

SpecPlace == InitPlace /\ [][NextPlace]_vars

\* ----------------------------------------------------------------- claims
\* the placements of the last run: the one the preview showed and the ones
\* written to the archive
PreviewShots == { preview.shots[i] : i \in 1..Len(preview.shots) }
BatchShots == { generated.entries[i].shot : i \in 1..Len(generated.entries) }
Shots == PreviewShots \cup BatchShots

\* min(W/dw, H/dh, 1.0) * p of a placement, as an exact fraction
ClaimScale(s) ==
    LET W == s.bbox[3]
        H == s.bbox[4]
    IN  IF W >= s.design.w /\ H >= s.design.h THEN <<s.padding, PadDen>>
        ELSE IF W * s.design.h <= H * s.design.w THEN <<W * s.padding, s.design.w * PadDen>>
        ELSE <<H * s.padding, s.design.h * PadDen>>

\* C1: in the preview and in the batch, whenever a box is used, the scale is
\* min(W/dw, H/dh, 1.0) * p and is at most 1, and the resized design is at
\* most W*p wide and H*p high.
C1_ScaleAndSizeBounded ==
    \A s \in Shots :
        Truthy(s.bbox) =>
            /\ s.scale[1] * ClaimScale(s)[2] = ClaimScale(s)[1] * s.scale[2]
            /\ s.scale[1] <= s.scale[2]
            /\ s.new_width * PadDen <= s.bbox[3] * s.padding
            /\ s.new_height * PadDen <= s.bbox[4] * s.padding

\* a design wider than its box is scaled down, in the preview and in the
\* batch, to exactly W*p
C1_Witness ==
    /\ \E s \in BatchShots :
          /\ Truthy(s.bbox) /\ s.design.w > s.bbox[3]
          /\ s.new_width >= 1 /\ s.new_width * PadDen = s.bbox[3] * s.padding
    /\ \E s \in PreviewShots :
          /\ Truthy(s.bbox) /\ s.design.w > s.bbox[3]
          /\ s.new_width >= 1 /\ s.new_width * PadDen = s.bbox[3] * s.padding

\* side * scale lies within 1/2 of n
Nearest(n, side, scale) ==
    LET diff == 2 * (n * scale[2] - side * scale[1])
    IN  diff <= scale[2] /\ 0 - diff <= scale[2]

\* C2 as stated: the resized width and height are the integers nearest to
\* design width * scale and design height * scale.
C2_RoundedToNearest ==
    \A s \in Shots :
        Truthy(s.bbox) =>
            /\ Nearest(s.new_width, s.design.w, ClaimScale(s))
            /\ Nearest(s.new_height, s.design.h, ClaimScale(s))

\* C2 amended: the resized width and height are design width * scale and
\* design height * scale cut down to an integer: never above the product and
\* never a whole unit or more below it, except that a product which is
\* exactly an integer may come out one lower; box (100,100,600,400), design
\* 300x300 and ratio 0.5 give 150x150.
C2_Truncated ==
    \A s \in Shots :
        Truthy(s.bbox) =>
            LET c == ClaimScale(s)
                pw == s.design.w * c[1]
                ph == s.design.h * c[1]
            IN  /\ s.new_width * c[2] <= pw
                /\ pw <= (s.new_width + 1) * c[2]
                /\ s.new_height * c[2] <= ph
                /\ ph <= (s.new_height + 1) * c[2]
                /\ (pw % c[2] # 0) => pw < (s.new_width + 1) * c[2]
                /\ (ph % c[2] # 0) => ph < (s.new_height + 1) * c[2]
                /\ (/\ s.design.w = 300 /\ s.design.h = 300
                    /\ s.bbox = <<100, 100, 600, 400>> /\ s.padding = 10)
                   => (s.new_width = 150 /\ s.new_height = 150)

\* the scenario of the specification, and a product with a fraction of more
\* than one half that is cut down
C2_Witness ==
    \E s \in BatchShots :
        /\ s.design.w = 300 /\ s.design.h = 300
        /\ s.bbox = <<100, 100, 600, 400>> /\ s.padding = 10
        /\ s.new_width = 150 /\ s.new_height = 150

\* C3 as stated: x centres the design in the box and y is the box top plus the
\* integer nearest to H * offset_percent / 100.
C3_RoundedOffset ==
    \A s \in Shots :
        Truthy(s.bbox) =>
            LET slack == s.bbox[3] - s.new_width
                diff == 2 * (100 * (s.y - s.bbox[2]) - s.bbox[4] * s.offset_pct)
            IN  /\ 2 * (s.x - s.bbox[1]) <= slack
                /\ slack <= 2 * (s.x - s.bbox[1]) + 1
                /\ diff <= 100 /\ 0 - diff <= 100

\* C3 amended: x is the box left plus half the free width, rounded down; y is
\* the box top plus H * offset_percent / 100 cut toward zero; offset 0 gives
\* the box top, offset 50 the box top plus half the box height rounded down.
C3_TruncatedOffset ==
    \A s \in Shots :
        Truthy(s.bbox) =>
            LET slack == s.bbox[3] - s.new_width
                t == s.y - s.bbox[2]
                exactly == s.bbox[4] * s.offset_pct
            IN  /\ 2 * (s.x - s.bbox[1]) <= slack
                /\ slack <= 2 * (s.x - s.bbox[1]) + 1
                /\ (s.offset_pct >= 0) => (100 * t <= exactly /\ exactly < 100 * (t + 1))
                /\ (s.offset_pct < 0) => (100 * t >= exactly /\ exactly > 100 * (t - 1))
                /\ (s.offset_pct = 0) => s.y = s.bbox[2]
                /\ (s.offset_pct = 50) =>
                       (2 * t <= s.bbox[4] /\ s.bbox[4] <= 2 * t + 1)

\* offset 50 on a box 3 high moves the design down by 1, with an odd free width
C3_Witness ==
    /\ \E s \in BatchShots :
          /\ Truthy(s.bbox) /\ s.offset_pct = 50 /\ s.bbox[4] = 3
          /\ s.y = s.bbox[2] + 1 /\ (s.bbox[3] - s.new_width) % 2 = 1
    /\ \E s \in PreviewShots : Truthy(s.bbox) /\ s.offset_pct = 50 /\ s.bbox[4] = 3

\* C4: when the lookup for a shirt gives no region, the design is pasted at
\* its own size, centred on the canvas with floor division, whatever the
\* padding ratio and the offset are.
C4_FallbackCentred ==
    \A s \in Shots :
        (~Truthy(s.bbox)) =>
            /\ s.new_width = s.design.w /\ s.new_height = s.design.h
            /\ s.resized_design.w = s.design.w /\ s.resized_design.h = s.design.h
            /\ 2 * s.x <= s.canvas_w - s.design.w /\ s.canvas_w - s.design.w <= 2 * s.x + 1
            /\ 2 * s.y <= s.canvas_h - s.design.h /\ s.canvas_h - s.design.h <= 2 * s.y + 1
            /\ s.image.layer = <<[x |-> s.x, y |-> s.y, src |-> DecodeDesign(s.design),
                                  mask |-> s.design.alpha]>>

\* a design larger than the canvas, centred at negative coordinates, with a
\* padding ratio other than the default
C4_Witness ==
    /\ generated.status = "download"
    /\ plain_padding_ratio = PadMax
    /\ \E s \in BatchShots :
          /\ ~Truthy(s.bbox)
          /\ (s.canvas_w - s.design.w) % 2 = 1 /\ s.x < 0 /\ s.y < 0
    /\ \E s \in PreviewShots : ~Truthy(s.bbox)

\* C5: between two Start Over clicks detection runs at most once per shirt
\* name; every placement uses the box stored under the shirt's name; a stored
\* result is never replaced; Start Over empties the cache.
C5_StateOk ==
    /\ \A n \in DOMAIN detections : detections[n] <= 1
    /\ \A s \in Shots :
          s.shirt.name \in DOMAIN shirt_bboxes /\ shirt_bboxes[s.shirt.name] = s.bbox

C5_StepOk ==
    IF clicked' = "start over"
    THEN shirt_bboxes' = EmptyDict
    ELSE \A n \in DOMAIN shirt_bboxes :
             n \in DOMAIN shirt_bboxes' /\ shirt_bboxes'[n] = shirt_bboxes[n]

C5_CachePerName == [](C5_StateOk) /\ [][C5_StepOk]_vars

\* a file placed with the box of another file of the same name
C5_Witness ==
    \E s \in BatchShots : Truthy(s.bbox) /\ Detect(s.shirt) = NoBox

\* C6: a preview that cannot be rendered shows "Preview failed" and the run
\* goes on to the Generate section; a batch that meets a file it cannot
\* process ends the run with an exception and offers no download.
C6_PreviewCaughtBatchNot ==
    /\ (pc = "idle" /\ design_files # <<>> /\ shirt_files # <<>>) =>
          /\ (~design_files[selected_design].ok \/ ~shirt_files[selected_shirt].ok)
                => preview.status = "failed"
          /\ preview.status \in {"failed", "shown"}
    /\ (clicked = "generate") => generated.status # "none"
    /\ (/\ clicked = "generate" /\ design_files # <<>> /\ shirt_files # <<>>
        /\ \/ \E d \in batch_start..batch_end : ~design_files[d].ok
           \/ \E i \in 1..Len(shirt_files) : ~shirt_files[i].ok)
          => (generated.status = "aborted" /\ generated.error = "Exception")
    /\ (generated.error = "Exception") => generated.status = "aborted"

\* the preview failed, the run went on, and the batch then failed
C6_Witness ==
    /\ clicked = "generate"
    /\ preview.status = "failed"
    /\ generated.status = "aborted"
    /\ generated.error = "Exception"

C8_TransparentIsIdentity ==
    \A s \in Shots :
        /\ s.shirt_after = s.shirt_before
        /\ s.image.w = s.shirt_before.w /\ s.image.h = s.shirt_before.h
        /\ (s.design.alpha = 0) =>
              \A i \in 0..(s.image.w - 1), j \in 0..(s.image.h - 1) :
                  PixelAt(s.image, i, j) = PixelAt(s.shirt_before, i, j)

\* a transparent design pasted inside the canvas at a box, and an opaque one
\* that changes a pixel
C8_Witness ==
    /\ \E s \in BatchShots :
          /\ s.design.alpha = 0 /\ Truthy(s.bbox)
          /\ s.x >= 0 /\ s.x < s.image.w /\ s.y >= 0 /\ s.y < s.image.h
    /\ \E s \in BatchShots :
          /\ s.design.alpha = Opaque
          /\ \E i \in 0..(s.image.w - 1), j \in 0..(s.image.h - 1) :
                PixelAt(s.image, i, j) # PixelAt(s.shirt_before, i, j)

\* C9: Generate clicked with no design or no shirt uploaded ends in the
\* warning, without an error.
C9_WarningWhenNothingUploaded ==
    (clicked = "generate" /\ (design_files = <<>> \/ shirt_files = <<>>)) =>
        (generated.status = "warning" /\ generated.error = "")

\* C10: a box used for a placement lies inside the canvas pasted onto.
C10_BoxInsideCanvas ==
    \A s \in Shots :
        Truthy(s.bbox) =>
            /\ s.bbox[1] + s.bbox[3] <= s.canvas_w
            /\ s.bbox[2] + s.bbox[4] <= s.canvas_h

====
